---- MODULE Spec2Model ----
(***************************************************************************)
(* The policy-reduce pipeline as its CDK stacks declare it:                *)
(*   schedule rule -> scraper queue -> scraper function -> NLP queue ->    *)
(*   NLP function, each queue with a redrive policy to its own dead-letter *)
(*   queue, each function fed by an SQS event source of batch size 1, and  *)
(*   five CloudWatch alarms with an SNS action each.                       *)
(* Time is counted in ticks of SecondsPerTick seconds; every duration the  *)
(* stacks declare is a whole number of ticks.                              *)
(***************************************************************************)
EXTENDS Integers, FiniteSets, Sequences, TLC

VARIABLES
  queue,          \* [Queues -> set of messages held by the source queue]
  dlq,            \* [Queues -> set of messages held by the dead-letter queue]
  acked,          \* [Queues -> set of message ids deleted by an acknowledgment]
  enqueued,       \* [Queues -> set of [id, payload, by, attempt]]: every send so far
  inv,            \* [Queues -> [Workers -> invocation of the queue's function]]
  fires,          \* number of times the schedule rule has fired
  metric,         \* [Alarms -> sum of the alarm's metric over the current period]
  alarm,          \* [Alarms -> "OK" | "ALARM"]
  notifications,  \* [Alarms -> number of messages published to the alarm's topic]
  transitions,    \* [Alarms -> number of OK -> ALARM transitions]
  quiet           \* length of the current run of evaluations that found an alarm
                  \* already in ALARM still in breach

vars == <<queue, dlq, acked, enqueued, inv, fires, metric, alarm, notifications,
          transitions, quiet>>

pipelineVars == <<queue, dlq, acked, enqueued, inv, fires>>
alarmVars == <<alarm, notifications, transitions, quiet>>

----------------------------------------------------------------------------
\* Bounds of the model.

MaxFires == 3          \* schedule fires
MaxPipelineFires == 1  \* schedule fires while both stages run
MaxNlpMessages == 2    \* messages sent to the NLP queue
MaxLiveNlpMessages == 1  \* the same, where progress is checked
MaxItems == 1          \* messages one scraper attempt sends
NumWorkers == 2        \* concurrent invocations per function
MaxWait == 1           \* a message's count of ticks spent visible saturates here
MaxNotifications == 2  \* notifications per run over all alarms
MaxQuiet == 5          \* the run of silent breaching evaluations saturates here

----------------------------------------------------------------------------
\* Configuration declared by the stacks.

SecondsPerTick == 60 * 15

Queues == {"scraper", "nlp"}

Workers == 1 .. NumWorkers

VisibilityTimeout(q) ==
  IF q = "nlp" THEN (60 * 15) \div SecondsPerTick
               ELSE (60 * 30) \div SecondsPerTick

MaxReceiveCount(q) == IF q = "nlp" THEN 2 ELSE 5

\* Variant: both redrive policies name the NLP dead-letter queue.
DeadLetterQueueOf_Shared(q) == "nlp"

\* Each source queue's redrive policy names its own dead-letter queue.
DeadLetterQueueOf(q) == q

\* lambda timeout: cdk.Duration.minutes(15) on both functions.
LambdaTimeout(q) == (15 * 60) \div SecondsPerTick

BatchSize == 1

TriggerPayload == "e_ingest"

\* The payload of the k-th work item an attempt produces.
NlpPayload(k) == IF k % 2 = 1 THEN "doc_a" ELSE "doc_b"

Alarms == {"ScraperError", "TotalRequeryError", "PollCreationError",
           "ScraperLambdaFailure", "NlpLambdaFailure"}

Threshold == 1

\* comparisonOperator GREATER_THAN_OR_EQUAL_TO_THRESHOLD over the period's Sum.
Breaching(sum) == sum >= Threshold

\* The alarm fed by the Errors metric of the function that consumes queue q.
LambdaFailureAlarm(q) ==
  IF q = "nlp" THEN "NlpLambdaFailure" ELSE "ScraperLambdaFailure"

\* The log lines the scraper log group's metric filters look for.
LogLines == {"Error", "Logging error", "Error creating eventbridge rule"}

\* Metric filters of the scraper log group: the alarms whose metric a log line
\* feeds.  The filter patterns are case-sensitive terms, so the line
\* "Error creating eventbridge rule" also matches the pattern 'Error'.
MatchedBy(line) ==
  CASE line = "Error" -> {"ScraperError"}
    [] line = "Logging error" -> {"TotalRequeryError"}
    [] line = "Error creating eventbridge rule" ->
         {"PollCreationError", "ScraperError"}

\* The alarms that receive a datapoint when a message is moved to the
\* dead-letter queue of q: the stacks attach no metric or alarm to either one.
EmitsOnRelocate(q) == {}

----------------------------------------------------------------------------
Min(a, b) == IF a < b THEN a ELSE b

Idle == [pc |-> "idle", id |-> 0, receipt |-> 0, elapsed |-> 0, sent |-> 0]

Ids(S) == {m.id : m \in S}

\* Variant: the lease is ignored, every message of the queue is visible.
Visible_IgnoresLease(q) == queue[q]

\* A message is visible when its visibility deadline has elapsed.
Visible(q) == {m \in queue[q] : m.visibility = 0}

\* Variant: one delivery too many before the move.
Exhausted_OffByOne(q, m) == m.delivery_count > MaxReceiveCount(q)

\* The redrive policy: a visible message that has already been received
\* maxReceiveCount times is moved instead of being returned again.
Exhausted(q, m) == m.delivery_count >= MaxReceiveCount(q)

NewMessage(i, p) ==
  [id |-> i, payload |-> p, delivery_count |-> 0, visibility |-> 0,
   leased |-> 0, waited |-> 0]

\* Datapoints added to the metrics of the alarms in A.
Record(A) ==
  [a \in Alarms |-> IF a \in A THEN Min(metric[a] + 1, Threshold) ELSE metric[a]]

----------------------------------------------------------------------------
Init ==
  /\ queue = [q \in Queues |-> {}]
  /\ dlq = [q \in Queues |-> {}]
  /\ acked = [q \in Queues |-> {}]
  /\ enqueued = [q \in Queues |-> {}]
  /\ inv = [q \in Queues |-> [w \in Workers |-> Idle]]
  /\ fires = 0
  /\ metric = [a \in Alarms |-> 0]
  /\ alarm = [a \in Alarms |-> "OK"]
  /\ notifications = [a \in Alarms |-> 0]
  /\ transitions = [a \in Alarms |-> 0]
  /\ quiet = [alarm |-> "none", n |-> 0]

\* Variant: the id of the latest trigger is given again.
TriggerId_Reused == IF fires = 0 THEN 1 ELSE fires

\* The message_id the queue gives the next trigger message.
TriggerId == fires + 1

\* The schedule rule fires: its SqsQueue target sends the fixed payload.
Fire ==
  /\ fires < MaxFires
  /\ fires' = fires + 1
  /\ queue' = [queue EXCEPT !["scraper"] = @ \cup {NewMessage(TriggerId, TriggerPayload)}]
  /\ enqueued' = [enqueued EXCEPT !["scraper"] =
                    @ \cup {[id |-> TriggerId, payload |-> TriggerPayload,
                             by |-> 0, attempt |-> 0]}]
  /\ UNCHANGED <<dlq, acked, inv, metric, alarmVars>>

\* The messages a receive call moves to the dead-letter queue.
Relocated(q) == {m \in Visible(q) : Exhausted(q, m)}

\* The messages a receive call may return.
Receivable(q) == Visible(q) \ Relocated(q)

\* Variant: the lease lasts one tick longer than the visibility timeout.
Lease_TooLong(q, m) ==
  [m EXCEPT !.delivery_count = @ + 1, !.visibility = VisibilityTimeout(q) + 1]

\* A receive that returns m counts the delivery and hides m for the visibility
\* timeout.
Lease(q, m) ==
  [m EXCEPT !.delivery_count = @ + 1, !.visibility = VisibilityTimeout(q)]

\* The event source of q polls for worker w: exhausted visible messages go to
\* the dead-letter queue, and at most BatchSize of the others is leased and
\* handed to a new invocation.  Invocations are interchangeable: the new one
\* takes the lowest free slot.
Receive(q, w) ==
  /\ inv[q][w].pc = "idle"
  /\ \A v \in Workers : v < w => inv[q][v].pc # "idle"
  /\ Visible(q) # {}
  /\ \E B \in SUBSET Receivable(q) :
       /\ Cardinality(B) = Min(BatchSize, Cardinality(Receivable(q)))
       /\ queue' = [queue EXCEPT ![q] =
                      ((@ \ Relocated(q)) \ B) \cup {Lease(q, m) : m \in B}]
       /\ inv' = [inv EXCEPT ![q][w] =
                    IF B = {} THEN Idle
                    ELSE LET m == CHOOSE x \in B : TRUE
                         IN [pc |-> "running", id |-> m.id,
                             receipt |-> m.delivery_count + 1,
                             elapsed |-> 0, sent |-> 0]]
  /\ dlq' = [dlq EXCEPT ![DeadLetterQueueOf(q)] = @ \cup Relocated(q)]
  /\ metric' = IF Relocated(q) = {} THEN metric ELSE Record(EmitsOnRelocate(q))
  /\ UNCHANGED <<acked, enqueued, fires, alarmVars>>

\* The scraper function sends one work item to the NLP queue.
Send(w) ==
  /\ inv["scraper"][w].pc = "running"
  /\ inv["scraper"][w].sent < MaxItems
  /\ Cardinality(enqueued["nlp"]) < MaxNlpMessages
  /\ LET i == Cardinality(enqueued["nlp"]) + 1
         p == NlpPayload(inv["scraper"][w].sent + 1) IN
       /\ queue' = [queue EXCEPT !["nlp"] = @ \cup {NewMessage(i, p)}]
       /\ enqueued' = [enqueued EXCEPT !["nlp"] =
                         @ \cup {[id |-> i, payload |-> p,
                                  by |-> inv["scraper"][w].id,
                                  attempt |-> inv["scraper"][w].receipt]}]
  /\ inv' = [inv EXCEPT !["scraper"][w].sent = @ + 1]
  /\ UNCHANGED <<dlq, acked, fires, metric, alarmVars>>

\* The function returns without error (at the latest when its timeout is up).
Succeed(q, w) ==
  /\ inv[q][w].pc = "running"
  /\ inv[q][w].elapsed <= LambdaTimeout(q)
  /\ inv' = [inv EXCEPT ![q][w].pc = "succeeded"]
  /\ UNCHANGED <<queue, dlq, acked, enqueued, fires, metric, alarmVars>>

\* The function throws, crashes or is stopped at its timeout: the invocation
\* is counted by the function's Errors metric and its message is not deleted.
Fail(q, w) ==
  /\ inv[q][w].pc = "running"
  /\ inv' = [inv EXCEPT ![q][w] = Idle]
  /\ metric' = Record({LambdaFailureAlarm(q)})
  /\ UNCHANGED <<queue, dlq, acked, enqueued, fires, alarmVars>>

\* Variant: the event source deletes while the function is still running.
CanDelete_BeforeReturn(q, w) == inv[q][w].pc \in {"running", "succeeded"}

\* The event source deletes a message once its invocation has returned.
CanDelete(q, w) == inv[q][w].pc = "succeeded"

\* A receipt handle deletes its message unless the message has been received
\* again since (or has left the queue).
Current(q, w) ==
  {m \in queue[q] : m.id = inv[q][w].id /\ m.delivery_count = inv[q][w].receipt}

Delete(q, w) ==
  /\ CanDelete(q, w)
  /\ queue' = [queue EXCEPT ![q] = @ \ Current(q, w)]
  /\ acked' = [acked EXCEPT ![q] = @ \cup Ids(Current(q, w))]
  /\ inv' = [inv EXCEPT ![q][w] = Idle]
  /\ UNCHANGED <<dlq, enqueued, fires, metric, alarmVars>>

\* Variant: a lease never runs out.
Aged_NoExpiry(m) ==
  [m EXCEPT !.waited = IF m.visibility = 0 THEN Min(@ + 1, MaxWait) ELSE @]

\* A message one tick later: nearer to its visibility deadline while leased,
\* waiting visible otherwise.
Aged(m) ==
  [m EXCEPT !.visibility = IF @ > 0 THEN @ - 1 ELSE 0,
            !.leased = IF m.visibility > 0 THEN @ + 1 ELSE @,
            !.waited = IF m.visibility = 0 THEN Min(@ + 1, MaxWait) ELSE @]

\* SecondsPerTick seconds pass.  A function does not run past its timeout, and
\* the event source deletes without delay.
Tick ==
  /\ \A q \in Queues, w \in Workers :
       /\ inv[q][w].pc = "running" => inv[q][w].elapsed < LambdaTimeout(q)
       /\ inv[q][w].pc # "succeeded"
  /\ queue' = [q \in Queues |-> {Aged(m) : m \in queue[q]}]
  /\ inv' = [q \in Queues |-> [w \in Workers |->
               IF inv[q][w].pc = "running"
               THEN [inv[q][w] EXCEPT !.elapsed = @ + 1]
               ELSE inv[q][w]]]
  /\ UNCHANGED <<dlq, acked, enqueued, fires, metric, alarmVars>>

----------------------------------------------------------------------------
\* The alarms.

\* The sets of alarms one event feeds: a failed invocation feeds the alarm on
\* its function's Errors metric, a log line feeds the alarms whose filter it
\* matches.
Signals ==
  {MatchedBy(line) : line \in LogLines} \cup {{LambdaFailureAlarm(q)} : q \in Queues}

Datapoint(A) ==
  /\ \E a \in A : metric[a] < Threshold
  /\ metric' = Record(A)
  /\ UNCHANGED <<pipelineVars, alarmVars>>

\* evaluationPeriods 1: the state after an evaluation depends on the period's
\* sum alone.
StateAfter(sum) == IF Breaching(sum) THEN "ALARM" ELSE "OK"

\* Variant: a message is published at every evaluation that ends in ALARM.
AlarmAction_Level(was, now) == IF now = "ALARM" THEN 1 ELSE 0

\* addAlarmAction(SnsAction): the messages published to the topic when an
\* evaluation takes the alarm from state `was` to state `now`.
AlarmAction(was, now) == IF was = "OK" /\ now = "ALARM" THEN 1 ELSE 0

Total(f) == f["ScraperError"] + f["TotalRequeryError"] + f["PollCreationError"]
            + f["ScraperLambdaFailure"] + f["NlpLambdaFailure"]

\* A period of alarm a ends and the alarm is evaluated on the period's sum.
Evaluate(a) ==
  LET now == StateAfter(metric[a])
      sent == AlarmAction(alarm[a], now)
  IN /\ sent > 0 => Total(notifications) < MaxNotifications
     /\ alarm' = [alarm EXCEPT ![a] = now]
     /\ notifications' = [notifications EXCEPT ![a] = @ + sent]
     /\ transitions' = [transitions EXCEPT ![a] =
                          IF alarm[a] = "OK" /\ alarm'[a] = "ALARM" THEN @ + 1 ELSE @]
     /\ quiet' = IF alarm[a] = "ALARM" /\ Breaching(metric[a])
                 THEN [alarm |-> a,
                       n |-> IF quiet.alarm = a THEN Min(quiet.n + 1, MaxQuiet) ELSE 1]
                 ELSE [alarm |-> "none", n |-> 0]
     /\ metric' = [metric EXCEPT ![a] = 0]
     /\ UNCHANGED pipelineVars

----------------------------------------------------------------------------
\* Both stages, one trigger.
PipelineNext ==
  \/ Fire /\ fires < MaxPipelineFires
  \/ Tick
  \/ \E w \in Workers : Send(w)
  \/ \E q \in Queues, w \in Workers : Receive(q, w)
  \/ \E q \in Queues, w \in Workers : Succeed(q, w)
  \/ \E q \in Queues, w \in Workers : Fail(q, w)
  \/ \E q \in Queues, w \in Workers : Delete(q, w)

Next == PipelineNext

Spec == Init /\ [][Next]_vars

\* The schedule rule against a scraper function that fails every invocation.
ScheduleNext ==
  \/ Fire
  \/ Tick
  \/ \E w \in Workers : Receive("scraper", w)
  \/ \E w \in Workers : Fail("scraper", w)

ScheduleSpec == Init /\ [][ScheduleNext]_vars

\* The alarms against arbitrary signals.
AlarmNext ==
  \/ \E A \in Signals : Datapoint(A)
  \/ \E a \in Alarms : Evaluate(a)

AlarmSpec == Init /\ [][AlarmNext]_vars

\* Both stages under the scheduling the deployment provides: time passes, each
\* event source keeps polling, a running function returns, fails or is stopped
\* at its timeout, and the event source deletes after a successful return.
LiveNext == Next /\ Cardinality(enqueued'["nlp"]) <= MaxLiveNlpMessages

LiveSpec ==
  /\ Init /\ [][LiveNext]_vars
  /\ WF_vars(Tick)
  /\ \A q \in Queues : WF_vars(\E w \in Workers : Receive(q, w))
  /\ \A q \in Queues, w \in Workers : WF_vars(Succeed(q, w) \/ Fail(q, w))
  /\ \A q \in Queues, w \in Workers : WF_vars(Delete(q, w))

----------------------------------------------------------------------------
\* Properties.

MessageIds(q) == IF q = "nlp" THEN 1 .. MaxNlpMessages ELSE 1 .. MaxFires

Other(q) == IF q = "nlp" THEN "scraper" ELSE "nlp"

Budget(q) == MaxReceiveCount(q) * VisibilityTimeout(q)

Holds(q, w, i) == inv[q][w].pc # "idle" /\ inv[q][w].id = i

Resolved(q, i) == i \in acked[q] \/ i \in Ids(dlq[q])

\* C1: every message enqueued on either queue is eventually acknowledged or
\* in that queue's dead-letter queue, and never both: the acknowledged, the
\* dead-lettered and the messages still held by the source queue are disjoint.
C1_ExactlyOneOutcome ==
  /\ [](\A q \in Queues :
          /\ acked[q] \cap Ids(dlq[q]) = {}
          /\ Ids(queue[q]) \cap (acked[q] \cup Ids(dlq[q])) = {})
  /\ \A q \in Queues : \A i \in MessageIds(q) :
       (i \in Ids(enqueued[q])) ~> Resolved(q, i)

\* Both outcomes have happened: the trigger is acknowledged and the work item
\* it produced is dead-lettered.
C1_Witness ==
  /\ acked["scraper"] # {}
  /\ dlq["nlp"] # {}

\* C2: a message is delivered at most max_receive_count times; each receive
\* that returns it raises delivery_count by one; the receive that would exceed
\* the count returns it to no worker, removes it from the source queue and
\* puts it, payload unchanged, in the dead-letter queue.
C2_BoundedDelivery ==
  /\ [](\A q \in Queues : \A m \in queue[q] \cup dlq[q] :
          m.delivery_count <= MaxReceiveCount(q))
  /\ [][\A q \in Queues :
          /\ \A w \in Workers :
               (inv[q][w].pc = "idle" /\ inv'[q][w].pc = "running") =>
                 \E m \in queue[q], n \in queue'[q] :
                   /\ m.id = inv'[q][w].id /\ n.id = m.id
                   /\ n.delivery_count = m.delivery_count + 1
                   /\ inv'[q][w].receipt = n.delivery_count
          /\ \A m \in dlq'[q] \ dlq[q] :
               /\ m \in queue[q]
               /\ m.delivery_count = MaxReceiveCount(q)
               /\ m.id \notin Ids(queue'[q])
               /\ \A w \in Workers :
                    inv'[q][w] # inv[q][w] => inv'[q][w].id # m.id
               /\ \E e \in enqueued[q] : e.id = m.id /\ e.payload = m.payload]_vars

\* A message of each queue has used up its deliveries and is dead-lettered.
C2_Witness ==
  /\ \E m \in dlq["nlp"] : m.delivery_count = 2 /\ m.payload = "doc_a"
  /\ \E m \in dlq["scraper"] : m.delivery_count = 5 /\ m.payload = "e_ingest"

\* C3: each message has at most one unexpired lease: no two invocations hold
\* the same message within visibility_timeout of their receive, and no two
\* hold it under the same receipt.
C3_OneLease ==
  \A q \in Queues : \A w1, w2 \in Workers :
    (w1 # w2 /\ inv[q][w1].pc # "idle" /\ inv[q][w2].pc # "idle"
       /\ inv[q][w1].id = inv[q][w2].id) =>
      /\ inv[q][w1].receipt # inv[q][w2].receipt
      /\ ~(inv[q][w1].elapsed < VisibilityTimeout(q)
           /\ inv[q][w2].elapsed < VisibilityTimeout(q))

\* A redelivered message is held under its new lease by one consumer while the
\* other consumer is idle with nothing else to receive.
C3_Witness ==
  \E q \in Queues : \E m \in queue[q] : \E w1, w2 \in Workers :
    /\ m.delivery_count >= 2 /\ m.visibility > 0
    /\ Holds(q, w1, m.id) /\ inv[q][w1].receipt = m.delivery_count
    /\ inv[q][w2].pc = "idle"
    /\ Visible(q) = {}

\* C4: a trigger is acknowledged only once the invocation that holds it has
\* returned, with everything that attempt sent already on the NLP queue's
\* record; a failed attempt acknowledges nothing and leaves the trigger in the
\* scraper queue.
C4_EnqueueBeforeAck ==
  /\ [][\A i \in acked'["scraper"] \ acked["scraper"] :
          \E w \in Workers :
            /\ inv["scraper"][w].pc = "succeeded"
            /\ inv["scraper"][w].id = i
            /\ Cardinality({e \in enqueued["nlp"] :
                              e.by = i /\ e.attempt = inv["scraper"][w].receipt})
                 = inv["scraper"][w].sent
            /\ enqueued' = enqueued]_vars
  /\ [][\A w \in Workers :
          (inv["scraper"][w].pc = "running" /\ inv'["scraper"][w].pc = "idle") =>
            /\ acked' = acked
            /\ queue'["scraper"] = queue["scraper"]]_vars

\* The first attempt on a trigger sent a work item and was not acknowledged,
\* the second sent one again and the trigger was acknowledged.
C4_Witness ==
  \E e1, e2 \in enqueued["nlp"] :
    /\ e1.by = e2.by /\ e1.attempt = 1 /\ e2.attempt = 2
    /\ e1.by \in acked["scraper"]

\* C5: each alarm has sent exactly one notification per OK -> ALARM transition.
C5_EdgeTriggered ==
  \A a \in Alarms : notifications[a] = transitions[a]

\* An alarm has stayed in breach for five further periods and has sent one
\* notification.
C5_Witness ==
  /\ quiet.n >= 5
  /\ \E a \in Alarms : quiet.alarm = a /\ alarm[a] = "ALARM" /\ notifications[a] = 1

\* C6: every fire of the rule adds one new, visible trigger message with a
\* fresh id and the fixed payload and leaves the messages already in the queue
\* as they are; a fire is possible whatever the queue holds; after k fires the
\* queue has received k distinct messages.
C6_OneMessagePerFire ==
  /\ [](/\ Cardinality(enqueued["scraper"]) = fires
        /\ Ids(enqueued["scraper"]) = 1 .. fires
        /\ Cardinality(queue["scraper"] \cup dlq["scraper"]) = fires
        /\ \A e \in enqueued["scraper"] : e.payload = TriggerPayload
        /\ fires < MaxFires => ENABLED Fire)
  /\ [][fires' # fires =>
          /\ fires' = fires + 1
          /\ queue["scraper"] \subseteq queue'["scraper"]
          /\ \E m \in queue'["scraper"] \ queue["scraper"] :
               /\ queue'["scraper"] = queue["scraper"] \cup {m}
               /\ m.id \notin Ids(queue["scraper"] \cup dlq["scraper"])
               /\ m.payload = TriggerPayload
               /\ m.delivery_count = 0 /\ m.visibility = 0]_vars

\* The third fire has added its message to a queue that holds a trigger in
\* flight and a trigger that has already failed twice.
C6_Witness ==
  /\ fires = 3
  /\ \E m1, m2, m3 \in queue["scraper"] :
       /\ m1.visibility > 0
       /\ m2.delivery_count >= 2 /\ m2.id # m1.id
       /\ m3.delivery_count = 0

\* C7: a message in a dead-letter queue has been observed by the alerting
\* sink: a monitored signal is in breach or a notification has been sent.
C7_DeadLetterObserved ==
  \A q \in Queues :
    dlq[q] # {} =>
      \E a \in Alarms : Breaching(metric[a]) \/ alarm[a] = "ALARM" \/ notifications[a] > 0

Frame(q) ==
  /\ queue'[q] = queue[q] /\ dlq'[q] = dlq[q] /\ acked'[q] = acked[q]
  /\ inv'[q] = inv[q] /\ enqueued'[q] = enqueued[q]

\* C8: a receive (with its dead-letter relocation), return, failure or delete
\* on one queue leaves the other queue's messages, dead letters, acknowledged
\* set and invocations unchanged; an enqueue on the NLP queue only adds a
\* message; and a queue with a visible message and an idle consumer can be
\* received from whatever the other queue holds.
C8_Isolation ==
  /\ [][\A q \in Queues, w \in Workers :
          (Receive(q, w) \/ Succeed(q, w) \/ Fail(q, w) \/ Delete(q, w))
            => Frame(Other(q))]_vars
  /\ [][\A w \in Workers :
          Send(w) => /\ queue["nlp"] \subseteq queue'["nlp"]
                     /\ dlq'["nlp"] = dlq["nlp"] /\ acked'["nlp"] = acked["nlp"]
                     /\ inv'["nlp"] = inv["nlp"]]_vars
  /\ [](\A q \in Queues :
          (Visible(q) # {} /\ \E w \in Workers : inv[q][w].pc = "idle")
            => \E w \in Workers : ENABLED Receive(q, w))

\* The trigger is dead-lettered and work items it produced have been
\* acknowledged and dead-lettered on the NLP queue.
C8_Witness ==
  /\ dlq["scraper"] # {}
  /\ acked["nlp"] # {}
  /\ dlq["nlp"] # {}

C10_AckBeforeExpiry ==
  \A q \in Queues, w \in Workers :
    inv[q][w].pc # "idle" =>
      \E m \in queue[q] :
        /\ m.id = inv[q][w].id
        /\ m.delivery_count = inv[q][w].receipt
        /\ m.visibility > 0

====
